---- MODULE Spec2Model ----
(***************************************************************************)
(* Media upload pipeline of rutinutl: validateImageFile, compressImage,    *)
(* the base64 read/decode, checkStorageLimit / getUserStorageUsage,        *)
(* uploadWithRetry and createSignedUrl, as driven by                       *)
(* uploadImageToSupabase.                                                  *)
(*                                                                         *)
(* Strings are sequences of one-character strings, so that split('.'),     *)
(* toLowerCase() and includes() are computed and not assumed.              *)
(* Sizes are bytes.  An absent (undefined) number is Undefined, an absent  *)
(* or empty string is <<>> (the code tests both with truthiness).          *)
(***************************************************************************)
EXTENDS Integers, Sequences, FiniteSets, TLC

(* ---------------------------------------------------------------- bounds *)
\* largest maxRetries option a caller passes
MaxRetriesBound == 3

(* -------------------------------------------------------------- strings *)
Upper == <<"A","B","C","D","E","F","G","H","I","J","K","L","M",
           "N","O","P","Q","R","S","T","U","V","W","X","Y","Z">>
Lower == <<"a","b","c","d","e","f","g","h","i","j","k","l","m",
           "n","o","p","q","r","s","t","u","v","w","x","y","z">>

toLowerCaseChar(c) ==
  IF \E i \in 1..26 : Upper[i] = c
    THEN Lower[CHOOSE i \in 1..26 : Upper[i] = c]
    ELSE c

toLowerCase(s) == [i \in 1..Len(s) |-> toLowerCaseChar(s[i])]

\* uri.split('.').pop(): the text after the last '.', the whole text if none
SplitDotPop(s) ==
  LET dots == {i \in 1..Len(s) : s[i] = "."}
      last == IF dots = {} THEN 0 ELSE CHOOSE i \in dots : \A j \in dots : j <= i
  IN SubSeq(s, last + 1, Len(s))

S_jpg  == <<"j","p","g">>
S_jpeg == <<"j","p","e","g">>
S_png  == <<"p","n","g">>
S_webp == <<"w","e","b","p">>
S_gif  == <<"g","i","f">>
S_image == <<"i","m","a","g","e","/">>
M_jpeg == S_image \o S_jpeg
M_jpg  == S_image \o S_jpg
M_png  == S_image \o S_png
M_webp == S_image \o S_webp
M_gif  == S_image \o S_gif

(* ---------------------------------------------------------------- sizes *)
MB == 1024 * 1024
Undefined == -1

\* (bytes / (1024 * 1024)).toFixed(2) as [neg, whole, frac]: 20 MB is
\* [neg |-> FALSE, whole |-> 20, frac |-> 0], printed "20.00"
toFixed2MB(bytes) ==
  LET a   == IF bytes < 0 THEN 0 - bytes ELSE bytes
      w   == a \div MB
      h   == ((a % MB) * 100 + MB \div 2) \div MB
  IN [neg |-> (bytes < 0) /\ (w + h > 0),
      whole |-> IF h = 100 THEN w + 1 ELSE w,
      frac  |-> IF h = 100 THEN 0 ELSE h]

(* ------------------------------------------------------------ validator *)
VALIDATION_CONFIG ==
  [maxSizeBytes |-> 10 * 1024 * 1024,
   maxSizeMB |-> 10,
   allowedFormats |-> {S_jpg, S_jpeg, S_png, S_webp, S_gif},
   allowedMimeTypes |-> {M_jpeg, M_jpg, M_png, M_webp, M_gif}]

NoError == [kind |-> "none"]

extractExtensionFromUri(uri) ==
  LET popped == toLowerCase(SplitDotPop(uri))
      ext == IF popped = <<>> THEN S_jpg ELSE popped
      validExtensions == {S_jpg, S_jpeg, S_png, S_webp, S_gif}
  IN IF ext \in validExtensions THEN ext ELSE S_jpg

getMimeType(extension) ==
  LET e == toLowerCase(extension)
  IN CASE e = S_jpg  -> M_jpeg
       [] e = S_jpeg -> M_jpeg
       [] e = S_png  -> M_png
       [] e = S_webp -> M_webp
       [] e = S_gif  -> M_gif
       [] OTHER      -> M_jpeg

\* validateImageFile with the MIME comparison left case-sensitive
validateImageFile_CaseSensitive(uri, fileSize, mimeType) ==
  LET extension == extractExtensionFromUri(uri)
  IN IF extension \notin VALIDATION_CONFIG.allowedFormats
       THEN [valid |-> FALSE, error |-> [kind |-> "InvalidFileFormat"]]
     ELSE IF mimeType # <<>> /\ mimeType \notin VALIDATION_CONFIG.allowedMimeTypes
       THEN [valid |-> FALSE, error |-> [kind |-> "InvalidMimeType", mime |-> mimeType]]
     ELSE IF fileSize # Undefined /\ fileSize = 0
       THEN [valid |-> FALSE, error |-> [kind |-> "FileEmpty"]]
     ELSE IF fileSize # Undefined /\ fileSize > VALIDATION_CONFIG.maxSizeBytes
       THEN [valid |-> FALSE,
             error |-> [kind |-> "FileTooLarge", sizeMB |-> toFixed2MB(fileSize),
                        maxMB |-> VALIDATION_CONFIG.maxSizeMB]]
     ELSE [valid |-> TRUE, error |-> NoError]

validateImageFile(uri, fileSize, mimeType) ==
  LET extension == extractExtensionFromUri(uri)
  IN IF extension \notin VALIDATION_CONFIG.allowedFormats
       THEN [valid |-> FALSE, error |-> [kind |-> "InvalidFileFormat"]]
     ELSE IF mimeType # <<>> /\ toLowerCase(mimeType) \notin VALIDATION_CONFIG.allowedMimeTypes
       THEN [valid |-> FALSE, error |-> [kind |-> "InvalidMimeType", mime |-> mimeType]]
     ELSE IF fileSize # Undefined /\ fileSize = 0
       THEN [valid |-> FALSE, error |-> [kind |-> "FileEmpty"]]
     ELSE IF fileSize # Undefined /\ fileSize > VALIDATION_CONFIG.maxSizeBytes
       THEN [valid |-> FALSE,
             error |-> [kind |-> "FileTooLarge", sizeMB |-> toFixed2MB(fileSize),
                        maxMB |-> VALIDATION_CONFIG.maxSizeMB]]
     ELSE [valid |-> TRUE, error |-> NoError]

(* ---------------------------------------------------------- quota guard *)
\* the limits with the warning at 90 %
STORAGE_LIMITS_Warn90 ==
  [MAX_TOTAL_STORAGE_BYTES |-> 100 * 1024 * 1024,
   MAX_FILE_SIZE_BYTES |-> 10 * 1024 * 1024,
   MAX_TOTAL_STORAGE_MB |-> 100,
   MAX_FILE_SIZE_MB |-> 10,
   WARNING_THRESHOLD_PERCENT |-> 90]

\* part_008 lines 207-213
STORAGE_LIMITS ==
  [MAX_TOTAL_STORAGE_BYTES |-> 100 * 1024 * 1024,
   MAX_FILE_SIZE_BYTES |-> 10 * 1024 * 1024,
   MAX_TOTAL_STORAGE_MB |-> 100,
   MAX_FILE_SIZE_MB |-> 10,
   WARNING_THRESHOLD_PERCENT |-> 80]

RECURSIVE SumSeq(_)
SumSeq(s) == IF s = <<>> THEN 0 ELSE Head(s) + SumSeq(Tail(s))

\* One ledger query: "ok" returns the rows, "error" returns data = null with
\* an error object, "throw" rejects (network failure).
QueryOutcomes == {"ok", "error", "throw"}

\* the usage without the storage_images rows
getUserStorageUsage_ToolsOnly(images, imagesOut, tools, toolsOut) ==
  IF imagesOut = "throw" \/ toolsOut = "throw"
    THEN [fileCount |-> 0, totalSizeBytes |-> 0]
    ELSE LET toolData == IF toolsOut = "ok"
                           THEN SelectSeq(tools, LAMBDA s : s > 0) ELSE <<>>
         IN [fileCount |-> Len(toolData), totalSizeBytes |-> SumSeq(toolData)]

\* getUserStorageUsage: images / tools are the rows of the owner in
\* storage_images / tools (their file_size), imagesOut / toolsOut what the
\* two queries do.
getUserStorageUsage(images, imagesOut, tools, toolsOut) ==
  IF imagesOut = "throw" \/ toolsOut = "throw"
    THEN [fileCount |-> 0, totalSizeBytes |-> 0]
    ELSE LET imgData  == IF imagesOut = "ok" THEN images ELSE <<>>
             toolData == IF toolsOut = "ok"
                           THEN SelectSeq(tools, LAMBDA s : s > 0) ELSE <<>>
         IN [fileCount |-> Len(imgData) + Len(toolData),
             totalSizeBytes |-> SumSeq(imgData) + SumSeq(toolData)]

\* checkStorageLimit without the per-file ceiling
checkStorageLimit_NoFileCeiling(currentUsage, fileSizeBytes) ==
  LET availableSpace == STORAGE_LIMITS.MAX_TOTAL_STORAGE_BYTES - currentUsage.totalSizeBytes
      wouldExceedLimit ==
        currentUsage.totalSizeBytes + fileSizeBytes > STORAGE_LIMITS.MAX_TOTAL_STORAGE_BYTES
      base == [currentUsage |-> currentUsage.totalSizeBytes,
               availableSpace |-> availableSpace,
               fileSize |-> fileSizeBytes]
  IN IF wouldExceedLimit
       THEN [allowed |-> FALSE, res |-> base,
             message |-> [kind |-> "NotEnoughStorageSpace",
                          sizeMB |-> toFixed2MB(fileSizeBytes),
                          availableMB |-> toFixed2MB(availableSpace)],
             warningMessage |-> NoError]
     ELSE [allowed |-> TRUE, res |-> base, message |-> NoError,
           warningMessage |-> NoError]

\* checkStorageLimit after its await of getUserStorageUsage
checkStorageLimit(currentUsage, fileSizeBytes) ==
  LET availableSpace == STORAGE_LIMITS.MAX_TOTAL_STORAGE_BYTES - currentUsage.totalSizeBytes
      wouldExceedLimit ==
        currentUsage.totalSizeBytes + fileSizeBytes > STORAGE_LIMITS.MAX_TOTAL_STORAGE_BYTES
      base == [currentUsage |-> currentUsage.totalSizeBytes,
               availableSpace |-> availableSpace,
               fileSize |-> fileSizeBytes]
      \* newUsagePercent >= WARNING_THRESHOLD_PERCENT, without the division
      \* (MAX_TOTAL_STORAGE_BYTES is a multiple of 100)
      warn == currentUsage.totalSizeBytes + fileSizeBytes
                >= STORAGE_LIMITS.WARNING_THRESHOLD_PERCENT
                     * (STORAGE_LIMITS.MAX_TOTAL_STORAGE_BYTES \div 100)
  IN IF fileSizeBytes > STORAGE_LIMITS.MAX_FILE_SIZE_BYTES
       THEN [allowed |-> FALSE, res |-> base,
             message |-> [kind |-> "FileIsTooLarge", sizeMB |-> toFixed2MB(fileSizeBytes),
                          maxMB |-> STORAGE_LIMITS.MAX_FILE_SIZE_MB],
             warningMessage |-> NoError]
     ELSE IF wouldExceedLimit
       THEN [allowed |-> FALSE, res |-> base,
             message |-> [kind |-> "NotEnoughStorageSpace",
                          sizeMB |-> toFixed2MB(fileSizeBytes),
                          availableMB |-> toFixed2MB(availableSpace)],
             warningMessage |-> NoError]
     ELSE [allowed |-> TRUE, res |-> base,
           message |-> NoError,
           warningMessage |->
             IF warn THEN [kind |-> "Remaining",
                           remainingMB |-> toFixed2MB(availableSpace - fileSizeBytes)]
                     ELSE NoError]

(* ------------------------------------------------------------ the store *)
\* What one storage.upload(path, data, {upsert}) call can do.  "ack": the
\* object is written and acknowledged.  "transient": nothing is written, an
\* error is reported.  "lost": the object is written but the client sees a
\* failure (the response is lost).  "duplicate": the path is taken and
\* upsert is false, the store refuses with an error.
PutOutcomes(objs, path, upsert) ==
  IF path \in objs /\ ~upsert
    THEN {"duplicate", "transient"}
    ELSE {"ack", "transient", "lost"}

StoreAfterPut(objs, path, out) ==
  IF out \in {"ack", "lost"} THEN objs \cup {path} ELSE objs

PutFailed(out) == out # "ack"

StoreError(out) == [kind |-> "StorageError", code |-> out]

UPSERT == FALSE

(* ------------------------------------------------------ destination path *)
DigitChars == <<"0","1","2","3","4","5","6","7","8","9">>

RECURSIVE NumberToString(_)
NumberToString(n) ==
  IF n < 10 THEN <<DigitChars[n + 1]>>
            ELSE NumberToString(n \div 10) \o <<DigitChars[(n % 10) + 1]>>

InRange(c, chars) == \E i \in 1..Len(chars) : chars[i] = c

\* the sanitizer removing the characters instead of replacing them
sanitizeName_Strip(fileName) ==
  SelectSeq(fileName,
            LAMBDA c : InRange(c, Upper) \/ InRange(c, Lower)
                         \/ InRange(c, DigitChars) \/ c \in {"-", "_"})

\* fileName.replace(/[^a-zA-Z0-9-_]/g, '-')
sanitizeName(fileName) ==
  [i \in 1..Len(fileName) |->
     IF InRange(fileName[i], Upper) \/ InRange(fileName[i], Lower)
        \/ InRange(fileName[i], DigitChars) \/ fileName[i] \in {"-", "_"}
       THEN fileName[i] ELSE "-"]

S_imageDash == <<"i","m","a","g","e","-">>

\* the path built from the file name as given
makeStoragePath_Raw(userId, fileName, fileExtension, t1, t2) ==
  LET sanitizedName == IF fileName # <<>> THEN fileName
                                          ELSE S_imageDash \o NumberToString(t1)
      uniqueFileName == sanitizedName \o <<"-">> \o NumberToString(t2)
                          \o <<".">> \o fileExtension
  IN userId \o <<"/">> \o uniqueFileName

\* lines 483-487; t1, t2 are the two readings of Date.now()
makeStoragePath(userId, fileName, fileExtension, t1, t2) ==
  LET sanitizedName == IF fileName # <<>> THEN sanitizeName(fileName)
                                          ELSE S_imageDash \o NumberToString(t1)
      uniqueFileName == sanitizedName \o <<"-">> \o NumberToString(t2)
                          \o <<".">> \o fileExtension
  IN userId \o <<"/">> \o uniqueFileName

(* -------------------------------------------------------- imageProcessor *)
\* part_010 lines 19-24; quality 0.8 as a percentage
DEFAULT_OPTIONS == [maxWidth |-> 1920, maxHeight |-> 1920, quality |-> 80,
                    targetSizeKB |-> 2048]

\* Math.round(num / den) for num >= 0, den > 0: the nearest integer, halves
\* upward.  The quotient is a floating-point product in the code; when the
\* exact value is a half, the product may fall on either side of it, so both
\* neighbours are outcomes.
RoundOutcomes(num, den) ==
  LET halfUp == (2 * num + den) \div (2 * den)
      isHalf == (2 * num) % den = 0 /\ ((2 * num) \div den) % 2 = 1
  IN IF isHalf THEN {halfUp - 1, halfUp} ELSE {halfUp}

\* the resize test with "and" in place of "or"
needsResize_Both(width, height, maxWidth, maxHeight) ==
  width > maxWidth /\ height > maxHeight

\* line 52
needsResize(width, height, maxWidth, maxHeight) ==
  width > maxWidth \/ height > maxHeight

\* lines 53-55: Math.min(maxWidth / width, maxHeight / height) as a fraction
scaleRatio(width, height, maxWidth, maxHeight) ==
  IF maxWidth * height <= maxHeight * width
    THEN [num |-> maxWidth, den |-> width]
    ELSE [num |-> maxHeight, den |-> height]

\* the resize with each axis scaled by its own ratio
resizeTargets_PerAxis(width, height, maxWidth, maxHeight) ==
  {[width |-> w, height |-> h] :
     w \in RoundOutcomes(width * maxWidth, width),
     h \in RoundOutcomes(height * maxHeight, height)}

\* lines 57-58: the sizes the resize action can ask for
resizeTargets(width, height, maxWidth, maxHeight) ==
  LET ratio == scaleRatio(width, height, maxWidth, maxHeight)
  IN {[width |-> w, height |-> h] :
        w \in RoundOutcomes(width * ratio.num, ratio.den),
        h \in RoundOutcomes(height * ratio.num, ratio.den)}

(* ----------------------------------------------------------------- base64 *)
\* longest byte sequence that is encoded and decoded
MaxBytesLen == 4

\* the base64 alphabet, index 0 first
TABLE == Upper \o Lower \o DigitChars \o <<"+", "/">>

TableChar(i) == TABLE[i + 1]

\* TABLE.indexOf(ch), -1 when absent
TableIndexOf(ch) ==
  IF \E i \in 1..64 : TABLE[i] = ch
    THEN (CHOOSE i \in 1..64 : TABLE[i] = ch) - 1
    ELSE -1

\* readAsStringAsync(uri, {encoding: 'base64'}): the padded base64 text of
\* the file's bytes, three bytes to four characters
RECURSIVE Base64Encode(_)
Base64Encode(bytes) ==
  IF bytes = <<>> THEN <<>>
  ELSE IF Len(bytes) = 1
    THEN LET n == bytes[1] * 65536
         IN <<TableChar(n \div 262144), TableChar((n \div 4096) % 64), "=", "=">>
  ELSE IF Len(bytes) = 2
    THEN LET n == bytes[1] * 65536 + bytes[2] * 256
         IN <<TableChar(n \div 262144), TableChar((n \div 4096) % 64),
              TableChar((n \div 64) % 64), "=">>
  ELSE LET n == bytes[1] * 65536 + bytes[2] * 256 + bytes[3]
       IN <<TableChar(n \div 262144), TableChar((n \div 4096) % 64),
            TableChar((n \div 64) % 64), TableChar(n % 64)>>
            \o Base64Encode(SubSeq(bytes, 4, Len(bytes)))

\* the loop of the base-64 package's decode: every character adds six bits
\* to bitStorage, and every character but the first of a group of four emits
\* the character code 0xFF & bitStorage >> (-2 * bitCounter & 6)
RECURSIVE DecodeLoop(_, _, _, _)
DecodeLoop(input, position, bitCounter, bitStorage) ==
  IF position > Len(input) THEN <<>>
  ELSE LET buffer == TableIndexOf(input[position])
           storage == IF bitCounter % 4 # 0 THEN bitStorage * 64 + buffer ELSE buffer
           counted == bitCounter + 1
           divisor == CASE counted % 4 = 2 -> 16
                        [] counted % 4 = 3 -> 4
                        [] OTHER -> 1
           emitted == IF bitCounter % 4 # 0
                        THEN <<(storage \div divisor) % 256>> ELSE <<>>
       IN emitted \o DecodeLoop(input, position + 1, counted, storage)

\* input.replace(/==?$/, '')
StripPadding(input) ==
  LET n == Len(input)
  IN IF n >= 2 /\ input[n] = "=" /\ input[n - 1] = "="
       THEN SubSeq(input, 1, n - 2)
     ELSE IF n >= 1 /\ input[n] = "="
       THEN SubSeq(input, 1, n - 1)
     ELSE input

\* base64Decode of the base-64 package (imported at ThemeContext.tsx line
\* 362): the binary string as character codes, or a throw on malformed text
base64Decode(input) ==
  LET stripped == IF Len(input) % 4 = 0 THEN StripPadding(input) ELSE input
      malformed == \/ Len(stripped) % 4 = 1
                   \/ \E i \in 1..Len(stripped) : TableIndexOf(stripped[i]) = -1
  IN IF malformed
       THEN [status |-> "throw", output |-> <<>>]
       ELSE [status |-> "ok", output |-> DecodeLoop(stripped, 1, 0, 0)]

\* the byte loop stopping one character early
BinaryStringToBytes_SkipLast(binaryString) ==
  [i \in 1..Len(binaryString) |->
     IF i < Len(binaryString) THEN binaryString[i] % 256 ELSE 0]

\* ThemeContext.tsx lines 496-499: a zeroed Uint8Array of the string's
\* length, each element set to the character code (stored modulo 256)
BinaryStringToBytes(binaryString) ==
  [i \in 1..Len(binaryString) |-> binaryString[i] % 256]

(* ---------------------------------------------------------------- state *)
VARIABLES
  pc,          \* where the run is: a label of uploadImageToSupabase / uploadWithRetry
  uri,         \* argument uri
  opts,        \* argument options, defaults applied
  local,       \* the locals of uploadImageToSupabase and uploadWithRetry
  result,      \* what the caller receives: the UploadResult or the thrown Error
  objects,     \* object store: the paths that hold an object
  ledger,      \* usage ledger: file_size of the owner's storage_images / tools rows
  now,         \* Date.now(), milliseconds since the run started
  validations, \* the validateImageFile calls so far: arguments and return
  lastCheck,       \* most recent checkStorageLimit call: arguments and return
  obs,         \* what a test double would record: calls, progress values, sleeps
  unitCall,    \* most recent direct call of compressImage or of the
               \* encode / decode pair: arguments, collaborator calls, return
  runs         \* the pipeline runs of one owner that are in flight together

vars == <<pc, uri, opts, local, result, objects, ledger, now,
          validations, lastCheck, obs, unitCall, runs>>

(* --------------------------------------------------------------- inputs *)
U_JPG    == <<"p",".","J","P","G">>
U_png    == <<"a",".","b","/","p",".","p","n","g">>
U_bmp    == <<"p",".","b","m","p">>
Uris == {U_JPG, U_png, U_bmp}

\* ImageManipulator saves with SaveFormat.JPEG into its cache
U_manipulated == <<"c",".","j","p","g">>

N_odd  == <<"a","/","b",".","c">>
N_storageLocation == <<"s","t","o","r","a","g","e","-","l","o","c","a","t","i","o","n">>
FileNames == {<<>>, N_odd}

UserId == <<"u","1">>

M_PNG_upper == <<"I","M","A","G","E","/","P","N","G">>
M_bmp == S_image \o <<"b","m","p">>
DeclaredMimeTypes == {<<>>, M_PNG_upper, M_bmp}
\* the picker passes asset.fileSize || undefined, so never 0
DeclaredSizes == {Undefined, 10 * MB, 10 * MB + 1, 20 * MB}

\* byte counts of the file that readAsStringAsync finds
FileSizes == {0, 3 * MB, 10 * MB - 2, 10 * MB, 20 * MB}

\* the owner's rows: nothing stored, 95 MB stored, 75 MB stored (5 MB below
\* the warning threshold)
Ledgers == {[images |-> <<>>, tools |-> <<>>],
            [images |-> <<95 * MB>>, tools |-> <<0>>],
            [images |-> <<60 * MB, 14 * MB>>, tools |-> <<0, MB>>]}

\* intrinsic sizes of picked images: below, at and above the maximum, a
\* panorama, and sizes whose scaled value is a half (6400 x 5 at 1920)
Dimensions == {1, 5, 1080, 1920, 1921, 4032, 6400, 10000}

\* options of a compressImage call: the defaults (also what the pipeline
\* passes, ThemeContext.tsx lines 425-429) and a non-square override
ProcessingOptions ==
  {DEFAULT_OPTIONS, [DEFAULT_OPTIONS EXCEPT !.maxWidth = 800, !.maxHeight = 600]}

\* byte values with every bit clear, mixed and set
ByteValues == {0, 165, 255}

ByteSequences == UNION {[1..n -> ByteValues] : n \in 0..MaxBytesLen}

\* a name that tries to leave the owner's folder
N_dotdot == <<".", ".", "/", "x">>

\* one call with enough attempts to reach the 5000 ms cap of the backoff
LongRetryOptions == [fileName |-> N_dotdot, compress |-> FALSE, maxRetries |-> 5,
                     onProgress |-> FALSE, userId |-> UserId]

Options == [fileName : FileNames, compress : BOOLEAN,
            maxRetries : 0..MaxRetriesBound, onProgress : BOOLEAN,
            userId : {UserId}]
             \cup {LongRetryOptions}

\* two uploads of one owner in flight together
RunIds == {1, 2}

\* file names handleImageSelection passes: the picker's, or 'storage-location'
RunFileNames == {N_odd, N_storageLocation}

\* estimatedSize of a file that passed the second validation
RunSizes == {3 * MB}

\* last reading of Date.now() in concurrent runs
MaxNow == 1

NoRun == [pc |-> "idle", fileName |-> <<>>, size |-> 0, seen |-> Undefined,
          queriesOk |-> TRUE, path |-> <<>>, attempt |-> 0, wrote |-> FALSE,
          collided |-> FALSE, overlapped |-> FALSE]

(* ------------------------------------------------------------------ Init *)
NoResult == [status |-> "none", error |-> NoError, url |-> <<>>,
             size |-> 0, compressed |-> FALSE]

NoLocal == [processedUri |-> <<>>, wasCompressed |-> FALSE, fileExtension |-> S_jpg,
            mimeType |-> <<>>, fileBytes |-> 0, base64Length |-> 0,
            estimatedSize |-> 0, storagePath |-> <<>>, bytesLength |-> 0,
            attempt |-> 0, lastError |-> NoError, delay |-> 0]

NoCall == [called |-> FALSE]

Init ==
  /\ pc = "idle"
  /\ uri = <<>>
  /\ opts = [fileName |-> <<>>, compress |-> TRUE, maxRetries |-> 3,
             onProgress |-> FALSE, userId |-> UserId]
  /\ local = NoLocal
  /\ result = NoResult
  /\ objects = {}
  /\ ledger \in Ledgers
  /\ now = 0
  /\ validations = <<>>
  /\ lastCheck = NoCall
  /\ obs = [putLog |-> <<>>, urlLog |-> <<>>, compressCalls |-> 0, readCalls |-> 0,
            progress |-> <<>>, sleeps |-> <<>>, cbThrew |-> FALSE,
            failed |-> {}]
  /\ unitCall = NoCall
  /\ runs = [r \in RunIds |-> NoRun]

(* ------------------------------------------------- uploadImageToSupabase *)
\* lines 544-552: the outer catch logs and rethrows to the caller
ThrowToCaller(e) ==
  /\ result' = [NoResult EXCEPT !.status = "error", !.error = e]
  /\ pc' = "failed"

ValidationCall(u, fileSize, mimeType) ==
  [uri |-> u, fileSize |-> fileSize, mimeType |-> mimeType,
   ret |-> validateImageFile(u, fileSize, mimeType)]

\* lines 395-418: destructure the options, pre-validate the URI
Begin(u, o, earlier) ==
  LET call == ValidationCall(u, Undefined, <<>>)
  IN /\ uri' = u
     /\ opts' = o
     /\ local' = [NoLocal EXCEPT !.processedUri = u]
     /\ validations' = earlier \o <<call>>
     /\ IF call.ret.valid
          THEN /\ pc' = "p10"
               /\ result' = result
          ELSE ThrowToCaller(call.ret.error)
     /\ obs' = obs
     /\ UNCHANGED <<objects, ledger, now, unitCall, runs, lastCheck>>

\* a caller invokes uploadImageToSupabase(uri, options)
UploadImageToSupabase ==
  /\ pc = "idle"
  /\ \E u \in Uris, o \in Options : Begin(u, o, validations)

\* home.tsx handleImageSelection: validate what the picker declares, then
\* upload with the fixed options of lines 371-377
HandleImageSelection ==
  /\ pc = "idle"
  /\ \E u \in Uris, fileSize \in DeclaredSizes, mimeType \in DeclaredMimeTypes :
       LET call == ValidationCall(u, fileSize, mimeType)
       IN IF call.ret.valid
            THEN Begin(u, [fileName |-> N_storageLocation, compress |-> TRUE,
                           maxRetries |-> 3, onProgress |-> FALSE,
                           userId |-> UserId], <<call>>)
            ELSE /\ pc' = "rejected"
                 /\ validations' = <<call>>
                 /\ UNCHANGED <<uri, opts, local, result, objects, ledger, now, unitCall, runs,
                                lastCheck, obs>>

\* onProgress?.(n) of uploadImageToSupabase: label -> n
ProgressPoints == {"p10", "p30", "p40", "p50", "p60", "p90", "p100"}

ProgressValue(l) ==
  CASE l = "p10" -> 10 [] l = "p30" -> 30 [] l = "p40" -> 40 [] l = "p50" -> 50
    [] l = "p60" -> 60 [] l = "p90" -> 90 [] l = "p100" -> 100

AfterProgress(l) ==
  CASE l = "p10" -> IF opts.compress THEN "compress" ELSE "extract"
    [] l = "p30" -> "extract"
    [] l = "p40" -> "read"
    [] l = "p50" -> "path"
    [] l = "p60" -> "loop"
    [] l = "p90" -> "signurl"
    [] l = "p100" -> "return"

\* what a call of the optional callback does
CallbackOutcomes == IF opts.onProgress THEN {"ok", "throw"} ELSE {"absent"}

CallbackError == [kind |-> "CallbackError"]

\* the progress values are fractions <<numerator, denominator>>
Delivered(o, out, value) ==
  [o EXCEPT !.progress = IF out = "absent" THEN @ ELSE Append(@, value),
            !.cbThrew = @ \/ (out = "throw")]

Progress ==
  /\ pc \in ProgressPoints
  /\ \E out \in CallbackOutcomes :
       /\ obs' = Delivered(obs, out, <<ProgressValue(pc), 1>>)
       /\ IF out = "throw"
            THEN ThrowToCaller(CallbackError)
            ELSE pc' = AfterProgress(pc) /\ result' = result
  /\ UNCHANGED <<uri, opts, local, objects, ledger, now, unitCall, runs, validations, lastCheck>>

\* the compression step with wasCompressed set before the await
Compress_FlagEarly ==
  /\ pc = "compress"
  /\ \E out \in {"ok", "throw"} :
       /\ local' = IF out = "ok"
                     THEN [local EXCEPT !.processedUri = U_manipulated,
                                        !.wasCompressed = TRUE]
                     ELSE [local EXCEPT !.processedUri = uri,
                                        !.wasCompressed = TRUE]
       /\ obs' = [obs EXCEPT !.compressCalls = @ + 1,
                             !.failed = IF out = "throw" THEN @ \cup {"compress"} ELSE @]
  /\ pc' = "p30"
  /\ UNCHANGED <<uri, opts, result, objects, ledger, now, unitCall, runs, validations, lastCheck>>

\* lines 423-437: compressImage either resolves with the manipulated file
\* or rejects; the rejection is caught and the original URI is kept
Compress ==
  /\ pc = "compress"
  /\ \E out \in {"ok", "throw"} :
       /\ local' = IF out = "ok"
                     THEN [local EXCEPT !.processedUri = U_manipulated,
                                        !.wasCompressed = TRUE]
                     ELSE [local EXCEPT !.processedUri = uri]
       /\ obs' = [obs EXCEPT !.compressCalls = @ + 1,
                             !.failed = IF out = "throw" THEN @ \cup {"compress"} ELSE @]
  /\ pc' = "p30"
  /\ UNCHANGED <<uri, opts, result, objects, ledger, now, unitCall, runs, validations, lastCheck>>

\* lines 441-442
ExtractExtension ==
  /\ pc = "extract"
  /\ LET ext == extractExtensionFromUri(local.processedUri)
     IN local' = [local EXCEPT !.fileExtension = ext, !.mimeType = getMimeType(ext)]
  /\ pc' = "p40"
  /\ UNCHANGED <<uri, opts, result, objects, ledger, now, unitCall, runs, validations, lastCheck, obs>>

\* base64 text of n bytes, with padding
Base64Length(n) == 4 * ((n + 2) \div 3)

\* lines 450-452: readAsStringAsync resolves with the base64 text or rejects
ReadFile ==
  /\ pc = "read"
  /\ \/ /\ ThrowToCaller([kind |-> "ReadError"])
        /\ local' = local
        /\ obs' = [obs EXCEPT !.readCalls = @ + 1, !.failed = @ \cup {"read"}]
     \/ \E n \in FileSizes :
          /\ local' = [local EXCEPT !.fileBytes = n, !.base64Length = Base64Length(n)]
          /\ obs' = [obs EXCEPT !.readCalls = @ + 1]
          /\ pc' = "sizevalidate"
          /\ result' = result
  /\ UNCHANGED <<uri, opts, objects, ledger, now, unitCall, runs, validations, lastCheck>>

\* lines 456-462
SizeValidate ==
  /\ pc = "sizevalidate"
  /\ LET estimatedSize == (local.base64Length * 3) \div 4
         call == ValidationCall(local.processedUri, estimatedSize, local.mimeType)
     IN /\ local' = [local EXCEPT !.estimatedSize = estimatedSize]
        /\ validations' = Append(validations, call)
        /\ IF call.ret.valid
             THEN /\ pc' = "quota"
                  /\ result' = result
             ELSE ThrowToCaller(call.ret.error)
  /\ UNCHANGED <<uri, opts, objects, ledger, now, unitCall, runs, lastCheck, obs>>

CheckCall(imagesOut, toolsOut, fileSizeBytes) ==
  LET usage == getUserStorageUsage(ledger.images, imagesOut, ledger.tools, toolsOut)
  IN [called |-> TRUE, currentBytes |-> usage.totalSizeBytes,
      fileSizeBytes |-> fileSizeBytes,
      queriesOk |-> imagesOut = "ok" /\ toolsOut = "ok",
      ret |-> checkStorageLimit(usage, fileSizeBytes)]

\* the quota step without the test of storageCheck.allowed
QuotaCheck_NoGate ==
  /\ pc = "quota"
  /\ \E imagesOut \in QueryOutcomes, toolsOut \in QueryOutcomes :
       LET call == CheckCall(imagesOut, toolsOut, local.estimatedSize)
       IN /\ lastCheck' = call
          /\ obs' = [obs EXCEPT
                       !.failed = IF call.queriesOk THEN @ ELSE @ \cup {"ledger"}]
          /\ pc' = "p50"
          /\ result' = result
  /\ UNCHANGED <<uri, opts, local, objects, ledger, now, unitCall, runs, validations>>

\* lines 466-477
QuotaCheck ==
  /\ pc = "quota"
  /\ \E imagesOut \in QueryOutcomes, toolsOut \in QueryOutcomes :
       LET call == CheckCall(imagesOut, toolsOut, local.estimatedSize)
       IN /\ lastCheck' = call
          /\ obs' = [obs EXCEPT
                       !.failed = IF call.queriesOk THEN @ ELSE @ \cup {"ledger"}]
          /\ IF call.ret.allowed
               THEN pc' = "p50" /\ result' = result
               ELSE ThrowToCaller(call.ret.message)
  /\ UNCHANGED <<uri, opts, local, objects, ledger, now, unitCall, runs, validations>>

\* sizes another caller of checkStorageLimit asks about
CandidateSizes == {0, 1, MB, MB + 1, 5 * MB, 10 * MB, 10 * MB + 1, 11 * MB, 20 * MB}

\* checkStorageLimit is exported: a call outside the pipeline
CallCheckStorageLimit ==
  /\ pc = "idle"
  /\ \E imagesOut \in QueryOutcomes, toolsOut \in QueryOutcomes, size \in CandidateSizes :
       lastCheck' = CheckCall(imagesOut, toolsOut, size)
  /\ pc' = "called"
  /\ UNCHANGED <<uri, opts, local, result, objects, ledger, now, unitCall, runs, validations, obs>>

\* one ImageManipulator.manipulateAsync(uri, actions, {compress, format})
ManipulateCall(actions, quality, out) ==
  [actions |-> actions, compress |-> quality, format |-> "JPEG", out |-> out]

\* compressImage (part_010 lines 26-100) called with an image of
\* width x height: the re-encode, the resize when the image is too large,
\* and the rethrow of a manipulator failure
CallCompressImage ==
  /\ pc = "idle"
  /\ \E width \in Dimensions, height \in Dimensions, o \in ProcessingOptions :
       LET call == [called |-> TRUE, fn |-> "compressImage",
                    width |-> width, height |-> height, opts |-> o]
           failure == [status |-> "error", kind |-> "ImageProcessingFailed"]
           first(out) == ManipulateCall(<<>>, o.quality, out)
       IN \/ unitCall' = call @@ [manipulations |-> <<first("throw")>>,
                                  ret |-> failure]
          \/ /\ ~needsResize(width, height, o.maxWidth, o.maxHeight)
             /\ unitCall' = call @@
                   [manipulations |-> <<first("ok")>>,
                    ret |-> [status |-> "ok", width |-> width, height |-> height,
                             processedSize |-> 0]]
          \/ /\ needsResize(width, height, o.maxWidth, o.maxHeight)
             /\ \E t \in resizeTargets(width, height, o.maxWidth, o.maxHeight),
                   out \in {"ok", "throw"} :
                  unitCall' = call @@
                    [manipulations |->
                       <<first("ok"),
                         ManipulateCall(<<[resize |-> t]>>, o.quality, out)>>,
                     ret |-> IF out = "ok"
                               THEN [status |-> "ok", width |-> t.width,
                                     height |-> t.height, processedSize |-> 0]
                               ELSE failure]
  /\ pc' = "called"
  /\ UNCHANGED <<uri, opts, local, result, objects, ledger, now, validations,
                 lastCheck, obs, runs>>

\* the file's bytes through readAsStringAsync (line 450) and the decode of
\* lines 493-505
EncodeDecode ==
  /\ pc = "idle"
  /\ \E bytes \in ByteSequences :
       LET base64 == Base64Encode(bytes)
           decoded == base64Decode(base64)
       IN unitCall' =
            [called |-> TRUE, fn |-> "encodeDecode", bytes |-> bytes,
             base64 |-> base64,
             ret |-> IF decoded.status = "ok"
                       THEN [status |-> "ok",
                             bytes |-> BinaryStringToBytes(decoded.output)]
                       ELSE [status |-> "error",
                             kind |-> "FailedToProcessImageData"]]
  /\ pc' = "called"
  /\ UNCHANGED <<uri, opts, local, result, objects, ledger, now, validations,
                 lastCheck, obs, runs>>

\* deleteStorageImage (part_009 lines 8-61) for an image whose object is in
\* the store and whose row is in the ledger: whether the path is found in
\* the URL, what storage.remove does and what the delete of the row does
DeleteStorageImage ==
  /\ pc = "idle"
  /\ \E pathFound \in BOOLEAN, removeOut \in {"ok", "error", "throw"},
        dbOut \in {"ok", "error", "throw"} :
       LET removeCalled == pathFound
           threw == removeCalled /\ removeOut = "throw"
           dbCalled == ~threw
       IN unitCall' =
            [called |-> TRUE, fn |-> "deleteStorageImage",
             removeCalled |-> removeCalled,
             removeOut |-> IF removeCalled THEN removeOut ELSE "none",
             dbOut |-> IF dbCalled THEN dbOut ELSE "none",
             objectRemoved |-> removeCalled /\ removeOut = "ok",
             rowDeleted |-> dbCalled /\ dbOut = "ok",
             ret |-> [success |-> dbCalled /\ dbOut = "ok"]]
  /\ pc' = "called"
  /\ UNCHANGED <<uri, opts, local, result, objects, ledger, now, validations,
                 lastCheck, obs, runs>>

\* lines 483-488
MakePath ==
  /\ pc = "path"
  /\ \E t2 \in (IF opts.fileName = <<>> THEN {now, now + 1} ELSE {now}) :
       /\ local' = [local EXCEPT !.storagePath =
                      makeStoragePath(opts.userId, opts.fileName,
                                      local.fileExtension, now, t2)]
       /\ now' = t2
  /\ pc' = "decode"
  /\ UNCHANGED <<uri, opts, result, objects, ledger, validations, lastCheck, unitCall, runs, obs>>

\* the decode step with a catch that goes on with an empty buffer
Decode_EmptyOnError ==
  /\ pc = "decode"
  /\ \/ /\ local' = [local EXCEPT !.bytesLength = local.fileBytes]
        /\ pc' = "p60"
        /\ UNCHANGED <<result, obs>>
     \/ /\ local' = [local EXCEPT !.bytesLength = 0]
        /\ pc' = "p60"
        /\ obs' = [obs EXCEPT !.failed = @ \cup {"decode"}]
        /\ result' = result
  /\ UNCHANGED <<uri, opts, objects, ledger, now, unitCall, runs, validations, lastCheck>>

\* lines 493-505: base64Decode returns the binary string or throws
Decode ==
  /\ pc = "decode"
  /\ \/ /\ local' = [local EXCEPT !.bytesLength = local.fileBytes]
        /\ pc' = "p60"
        /\ UNCHANGED <<result, obs>>
     \/ /\ ThrowToCaller([kind |-> "FailedToProcessImageData"])
        /\ obs' = [obs EXCEPT !.failed = @ \cup {"decode"}]
        /\ local' = local
  /\ UNCHANGED <<uri, opts, objects, ledger, now, unitCall, runs, validations, lastCheck>>

(* ------------------------------------------------------- uploadWithRetry *)
Min(a, b) == IF a < b THEN a ELSE b

RECURSIVE Pow2(_)
Pow2(n) == IF n = 0 THEN 1 ELSE 2 * Pow2(n - 1)

\* the delay without its 5000 ms cap
backoffDelay_NoCap(attempt) == 1000 * Pow2(attempt)

\* line 682
backoffDelay(attempt) == Min(1000 * Pow2(attempt), 5000)

\* lines 516-518 applied to (attempt + 0.5) / maxRetries:
\* 60 + ((2 * attempt + 1) / (2 * maxRetries)) * 0.3
MidpointValue(attempt, maxRetries) ==
  <<60 * 20 * maxRetries + 3 * (2 * attempt + 1), 20 * maxRetries>>

\* lines 516-518 applied to 1
CompleteValue == <<603, 10>>

\* the catch with a last attempt that does not reach the loop increment
CatchAttempt_NoIncrement(l, e) ==
  IF l.attempt < opts.maxRetries - 1
    THEN [l EXCEPT !.lastError = e, !.delay = backoffDelay(l.attempt)]
    ELSE [l EXCEPT !.lastError = e]

\* lines 673-686: the catch of one attempt records the error, then either
\* schedules the backoff sleep or falls through to the loop increment
CatchAttempt(l, e) ==
  IF l.attempt < opts.maxRetries - 1
    THEN [l EXCEPT !.lastError = e, !.delay = backoffDelay(l.attempt)]
    ELSE [l EXCEPT !.lastError = e, !.attempt = @ + 1]

AfterCatch(l) == IF l.attempt < opts.maxRetries - 1 THEN "sleep" ELSE "loop"

\* the loop test written attempt <= maxRetries
LoopTest_OneMore ==
  /\ pc = "loop"
  /\ IF local.attempt <= opts.maxRetries
       THEN /\ pc' = "attempt"
            /\ UNCHANGED <<result, obs>>
       ELSE /\ ThrowToCaller([kind |-> "UploadFailedAfter",
                              attempts |-> opts.maxRetries,
                              last |-> IF local.lastError = NoError
                                         THEN [kind |-> "UnknownError"]
                                         ELSE local.lastError])
            /\ obs' = [obs EXCEPT !.failed = @ \cup {"put"}]
  /\ UNCHANGED <<uri, opts, local, objects, ledger, now, unitCall, runs, validations, lastCheck>>

\* line 651 loop test, lines 689-693 when the loop ends
LoopTest ==
  /\ pc = "loop"
  /\ IF local.attempt < opts.maxRetries
       THEN /\ pc' = "attempt"
            /\ UNCHANGED <<result, obs>>
       ELSE /\ ThrowToCaller([kind |-> "UploadFailedAfter",
                              attempts |-> opts.maxRetries,
                              last |-> IF local.lastError = NoError
                                         THEN [kind |-> "UnknownError"]
                                         ELSE local.lastError])
            /\ obs' = [obs EXCEPT !.failed = @ \cup {"put"}]
  /\ UNCHANGED <<uri, opts, local, objects, ledger, now, unitCall, runs, validations, lastCheck>>

\* line 656: the midpoint callback, inside the try of the attempt
AttemptProgress ==
  /\ pc = "attempt"
  /\ \E out \in CallbackOutcomes :
       /\ obs' = Delivered(obs, out, MidpointValue(local.attempt, opts.maxRetries))
       /\ IF out = "throw"
            THEN /\ local' = CatchAttempt(local, CallbackError)
                 /\ pc' = AfterCatch(local)
            ELSE /\ local' = local
                 /\ pc' = "put"
  /\ UNCHANGED <<uri, opts, result, objects, ledger, now, unitCall, runs, validations, lastCheck>>

\* the put with a path built anew for every attempt
Put_FreshPath ==
  /\ pc = "put"
  /\ LET path == makeStoragePath(opts.userId, opts.fileName, local.fileExtension,
                                 now, now)
     IN \E out \in PutOutcomes(objects, path, UPSERT) :
          /\ objects' = StoreAfterPut(objects, path, out)
          /\ obs' = [obs EXCEPT !.putLog =
                       Append(@, [path |-> path, out |-> out,
                                  size |-> local.bytesLength,
                                  contentType |-> local.mimeType])]
          /\ IF PutFailed(out)
               THEN /\ local' = CatchAttempt(local, StoreError(out))
                    /\ pc' = AfterCatch(local)
               ELSE /\ local' = local
                    /\ pc' = "uploaded"
  /\ UNCHANGED <<uri, opts, result, ledger, now, unitCall, runs, validations, lastCheck>>

\* lines 658-668: one storage.upload call and its outcome
Put ==
  /\ pc = "put"
  /\ \E out \in PutOutcomes(objects, local.storagePath, UPSERT) :
       /\ objects' = StoreAfterPut(objects, local.storagePath, out)
       /\ obs' = [obs EXCEPT !.putLog =
                    Append(@, [path |-> local.storagePath, out |-> out,
                               size |-> local.bytesLength,
                               contentType |-> local.mimeType])]
       /\ IF PutFailed(out)
            THEN /\ local' = CatchAttempt(local, StoreError(out))
                 /\ pc' = AfterCatch(local)
            ELSE /\ local' = local
                 /\ pc' = "uploaded"
  /\ UNCHANGED <<uri, opts, result, ledger, now, unitCall, runs, validations, lastCheck>>

\* lines 670-672: onProgress?.(1), still inside the try, then return
UploadedProgress ==
  /\ pc = "uploaded"
  /\ \E out \in CallbackOutcomes :
       /\ obs' = Delivered(obs, out, CompleteValue)
       /\ IF out = "throw"
            THEN /\ local' = CatchAttempt(local, CallbackError)
                 /\ pc' = AfterCatch(local)
            ELSE /\ local' = local
                 /\ pc' = "p90"
  /\ UNCHANGED <<uri, opts, result, objects, ledger, now, unitCall, runs, validations, lastCheck>>

\* line 684 and the loop increment
Sleep ==
  /\ pc = "sleep"
  /\ now' = now + local.delay
  /\ obs' = [obs EXCEPT !.sleeps = Append(@, local.delay)]
  /\ local' = [local EXCEPT !.attempt = @ + 1]
  /\ pc' = "loop"
  /\ UNCHANGED <<uri, opts, result, objects, ledger, validations, lastCheck, unitCall, runs>>

(* ------------------------------------------------------ reference issuer *)
\* the reference request repeated once after a failure
SignUrl_Retry ==
  /\ pc = "signurl"
  /\ \E out \in {"ok", "error", "nourl", "throw"} :
       /\ obs' = [obs EXCEPT !.urlLog = Append(@, local.storagePath),
                             !.failed = IF out = "ok" THEN @ ELSE @ \cup {"url"}]
       /\ CASE out = "ok" -> pc' = "p100" /\ result' = result
            [] out \in {"error", "nourl"} /\ obs.urlLog = <<>> ->
                 pc' = "signurl" /\ result' = result
            [] out \in {"error", "nourl"} /\ obs.urlLog # <<>> ->
                 ThrowToCaller([kind |-> "FailedToGenerateSignedUrl"])
            [] out = "throw" -> ThrowToCaller([kind |-> "NetworkError"])
  /\ UNCHANGED <<uri, opts, local, objects, ledger, now, unitCall, runs, validations, lastCheck>>

\* lines 526-533: createSignedUrl resolves with a URL, with an error, with
\* neither, or rejects
SignUrl ==
  /\ pc = "signurl"
  /\ \E out \in {"ok", "error", "nourl", "throw"} :
       /\ obs' = [obs EXCEPT !.urlLog = Append(@, local.storagePath),
                             !.failed = IF out = "ok" THEN @ ELSE @ \cup {"url"}]
       /\ CASE out = "ok" -> pc' = "p100" /\ result' = result
            [] out \in {"error", "nourl"} ->
                 ThrowToCaller([kind |-> "FailedToGenerateSignedUrl"])
            [] out = "throw" -> ThrowToCaller([kind |-> "NetworkError"])
  /\ UNCHANGED <<uri, opts, local, objects, ledger, now, unitCall, runs, validations, lastCheck>>

\* lines 539-543
Return ==
  /\ pc = "return"
  /\ result' = [status |-> "success", error |-> NoError,
                url |-> local.storagePath,
                size |-> local.estimatedSize,
                compressed |-> local.wasCompressed]
  /\ pc' = "done"
  /\ UNCHANGED <<uri, opts, local, objects, ledger, now, unitCall, runs, validations, lastCheck, obs>>

(* ------------------------------------------------------------------ Next *)
Next ==
  \/ UploadImageToSupabase
  \/ HandleImageSelection
  \/ CallCheckStorageLimit
  \/ CallCompressImage
  \/ EncodeDecode
  \/ DeleteStorageImage
  \/ Progress
  \/ Compress
  \/ ExtractExtension
  \/ ReadFile
  \/ SizeValidate
  \/ QuotaCheck
  \/ MakePath
  \/ Decode
  \/ LoopTest
  \/ AttemptProgress
  \/ Put
  \/ UploadedProgress
  \/ Sleep
  \/ SignUrl
  \/ Return

Spec == Init /\ [][Next]_vars

\* a caller invokes uploadImageToSupabase on a .png reference with a file
\* name and compression off, with any retry count and callback, for an owner
\* with nothing stored
LiveOptions == {o \in Options : o.fileName # <<>> /\ ~o.compress}

InitLive == Init /\ ledger = [images |-> <<>>, tools |-> <<>>]

UploadNamedImage ==
  /\ pc = "idle"
  /\ \E o \in LiveOptions : Begin(U_png, o, validations)

NextLive ==
  \/ UploadNamedImage
  \/ Progress
  \/ ExtractExtension
  \/ ReadFile
  \/ SizeValidate
  \/ QuotaCheck
  \/ MakePath
  \/ Decode
  \/ LoopTest
  \/ AttemptProgress
  \/ Put
  \/ UploadedProgress
  \/ Sleep
  \/ SignUrl
  \/ Return

\* every await of the run returns: the step that is pending is taken
SpecLive == InitLive /\ [][NextLive]_vars /\ WF_vars(NextLive)

(* ------------------------------------------------------- concurrent runs *)
\* Runs of handleImageSelection (home.tsx lines 344-412) for one owner,
\* interleaved at their awaits.  Each action is the code between two awaits
\* that reads or writes what the runs share: the ledger, the store and the
\* clock.  The steps before the quota check are local to a run and are in
\* Spec.

\* home.tsx lines 357-379 and ThemeContext.tsx lines 415-462: the run has a
\* validated file of estimatedSize bytes and is about to check the quota
RunBegin(r) ==
  /\ runs[r].pc = "idle"
  /\ \E name \in RunFileNames, size \in RunSizes :
       runs' = [runs EXCEPT ![r] = [@ EXCEPT !.pc = "quota", !.fileName = name,
                                             !.size = size]]
  /\ UNCHANGED <<pc, uri, opts, local, result, objects, ledger, now, validations,
                 lastCheck, obs, unitCall>>

\* another run has passed its quota check and its row is not yet inserted
OtherRunPending(r) ==
  \E q \in RunIds \ {r} : runs[q].pc \in {"path", "put", "sign", "insert"}

\* the quota step of a run without the test of storageCheck.allowed
RunQuotaCheck_NoGate(r) ==
  /\ runs[r].pc = "quota"
  /\ \E imagesOut \in QueryOutcomes, toolsOut \in QueryOutcomes :
       LET call == CheckCall(imagesOut, toolsOut, runs[r].size)
       IN runs' = [runs EXCEPT ![r] =
                     [@ EXCEPT !.seen = call.currentBytes,
                               !.queriesOk = call.queriesOk,
                               !.overlapped = OtherRunPending(r),
                               !.pc = "path"]]
  /\ UNCHANGED <<pc, uri, opts, local, result, objects, ledger, now, validations,
                 lastCheck, obs, unitCall>>

\* ThemeContext.tsx lines 466-477: checkStorageLimit reads the ledger as it
\* is now
RunQuotaCheck(r) ==
  /\ runs[r].pc = "quota"
  /\ \E imagesOut \in QueryOutcomes, toolsOut \in QueryOutcomes :
       LET call == CheckCall(imagesOut, toolsOut, runs[r].size)
       IN runs' = [runs EXCEPT ![r] =
                     [@ EXCEPT !.seen = call.currentBytes,
                               !.queriesOk = call.queriesOk,
                               !.overlapped = OtherRunPending(r),
                               !.pc = IF call.ret.allowed THEN "path" ELSE "failed"]]
  /\ UNCHANGED <<pc, uri, opts, local, result, objects, ledger, now, validations,
                 lastCheck, obs, unitCall>>

\* ThemeContext.tsx lines 483-488: both readings of Date.now() fall in the
\* current millisecond; the compressed file is a .jpg
RunMakePath(r) ==
  /\ runs[r].pc = "path"
  /\ runs' = [runs EXCEPT ![r] =
                [@ EXCEPT !.path = makeStoragePath(UserId, runs[r].fileName,
                                                   S_jpg, now, now),
                          !.pc = "put"]]
  /\ UNCHANGED <<pc, uri, opts, local, result, objects, ledger, now, validations,
                 lastCheck, obs, unitCall>>

\* ThemeContext.tsx lines 654-685 with maxRetries = 3 (home.tsx line 375):
\* one put; a failure is retried until the third attempt has failed
RunPut(r) ==
  /\ runs[r].pc = "put"
  /\ \E out \in PutOutcomes(objects, runs[r].path, UPSERT) :
       /\ objects' = StoreAfterPut(objects, runs[r].path, out)
       /\ runs' = [runs EXCEPT ![r] =
                     [@ EXCEPT !.wrote = @ \/ out \in {"ack", "lost"},
                               !.collided = @ \/ (out = "duplicate" /\ ~runs[r].wrote),
                               !.attempt = IF PutFailed(out) THEN @ + 1 ELSE @,
                               !.pc = IF ~PutFailed(out) THEN "sign"
                                      ELSE IF runs[r].attempt < 3 - 1 THEN "put"
                                      ELSE "failed"]]
  /\ UNCHANGED <<pc, uri, opts, local, result, ledger, now, validations,
                 lastCheck, obs, unitCall>>

\* ThemeContext.tsx lines 526-543: the signed URL, then the return
RunSignUrl(r) ==
  /\ runs[r].pc = "sign"
  /\ \E ok \in BOOLEAN :
       runs' = [runs EXCEPT ![r] = [@ EXCEPT !.pc = IF ok THEN "insert" ELSE "failed"]]
  /\ UNCHANGED <<pc, uri, opts, local, result, objects, ledger, now, validations,
                 lastCheck, obs, unitCall>>

\* home.tsx lines 385-404: the caller inserts the storage_images row with
\* file_size = result.size; an insert error is only reported to the user
InsertRow(r) ==
  /\ runs[r].pc = "insert"
  /\ \/ /\ ledger' = [ledger EXCEPT !.images = Append(@, runs[r].size)]
        /\ runs' = [runs EXCEPT ![r] = [@ EXCEPT !.pc = "recorded"]]
     \/ /\ ledger' = ledger
        /\ runs' = [runs EXCEPT ![r] = [@ EXCEPT !.pc = "unrecorded"]]
  /\ UNCHANGED <<pc, uri, opts, local, result, objects, now, validations,
                 lastCheck, obs, unitCall>>

\* a millisecond passes
Tick ==
  /\ now < MaxNow
  /\ now' = now + 1
  /\ UNCHANGED <<pc, uri, opts, local, result, objects, ledger, validations,
                 lastCheck, obs, unitCall, runs>>

NextRace ==
  \/ \E r \in RunIds : RunBegin(r)
  \/ \E r \in RunIds : RunQuotaCheck(r)
  \/ \E r \in RunIds : RunMakePath(r)
  \/ \E r \in RunIds : RunPut(r)
  \/ \E r \in RunIds : RunSignUrl(r)
  \/ \E r \in RunIds : InsertRow(r)
  \/ Tick

SpecRace == Init /\ [][NextRace]_vars

(* ================================================================ claims *)
PutOut(i) == obs.putLog[i].out
NumPuts == Len(obs.putLog)
AllPutsFailed == \A i \in 1..NumPuts : PutFailed(PutOut(i))
\* the put calls are k failures followed by one acknowledged call
FailuresThenAck ==
  /\ NumPuts >= 1
  /\ PutOut(NumPuts) = "ack"
  /\ \A i \in 1..(NumPuts - 1) : PutFailed(PutOut(i))
\* uploadWithRetry has returned the upload data to the pipeline
UploadReturned ==
  pc \in {"p90", "signurl", "p100", "return", "done"} \/ obs.urlLog # <<>>

\* C1: in a run whose progress callback does not throw and with
\* maxRetries >= 1: when the store fails k < maxRetries put calls and then
\* acknowledges one, uploadWithRetry returns after exactly those k + 1 calls
\* (no put follows the acknowledged one) and the pipeline reports success only
\* then; when every put fails, exactly maxRetries calls are made, the result
\* is an error, and the error carries maxRetries and the message of the last
\* store error.
C1_RetryCallCount ==
  (~obs.cbThrew /\ opts.maxRetries >= 1) =>
    /\ NumPuts <= opts.maxRetries
    /\ (\E i \in 1..NumPuts : PutOut(i) = "ack") =>
         FailuresThenAck /\ (pc = "uploaded" \/ UploadReturned)
    /\ UploadReturned => FailuresThenAck
    /\ result.status = "success" => FailuresThenAck
    /\ (AllPutsFailed /\ NumPuts = opts.maxRetries /\ pc \in {"done", "failed"}) =>
         /\ result.status = "error"
         /\ result.error = [kind |-> "UploadFailedAfter",
                            attempts |-> opts.maxRetries,
                            last |-> StoreError(PutOut(NumPuts))]
    /\ (result.status = "error" /\ result.error.kind = "UploadFailedAfter") =>
         /\ NumPuts = opts.maxRetries
         /\ AllPutsFailed
         /\ result.error.attempts = opts.maxRetries
         /\ result.error.last = StoreError(PutOut(NumPuts))

\* two failed puts, then the third is acknowledged, with maxRetries = 3
C1_Witness ==
  /\ result.status = "success"
  /\ ~obs.cbThrew
  /\ opts.maxRetries = 3
  /\ NumPuts = 3
  /\ PutOut(1) = "transient" /\ PutOut(2) = "transient" /\ PutOut(3) = "ack"

\* C2: checkStorageLimit returns allowed = false exactly when the candidate
\* is larger than the per-object ceiling (10 MB) or current usage plus the
\* candidate is larger than the total ceiling (100 MB).
C2_QuotaDecision ==
  lastCheck.called =>
    (lastCheck.ret.allowed <=>
       ~ \/ lastCheck.currentBytes + lastCheck.fileSizeBytes > 100 * 1024 * 1024
         \/ lastCheck.fileSizeBytes > 10 * 1024 * 1024)

\* an 11 MB candidate is refused although 89 MB would remain after it
C2_Witness ==
  /\ lastCheck.called
  /\ lastCheck.currentBytes = 0
  /\ lastCheck.fileSizeBytes = 11 * 1024 * 1024
  /\ ~lastCheck.ret.allowed

AllowedExtensionNames == {S_jpg, S_jpeg, S_png, S_webp, S_gif}
\* the text after the last '.' of the reference, lower-cased, is allowed
HasAllowedExtension(u) == toLowerCase(SplitDotPop(u)) \in AllowedExtensionNames
AllowedMimeNames == {M_jpeg, M_jpg, M_png, M_webp, M_gif}

\* C3: for a reference with an allowed extension, validateImageFile returns
\* invalid when a size is given and is 0 or above 10 MB, or a MIME type is
\* given whose lower-cased form is not allowed, and valid otherwise; a 20 MB
\* file with an acceptable type is refused citing 20.00 MB and the 10 MB limit.
C3_ValidatorDecision ==
  \A i \in 1..Len(validations) :
    LET c == validations[i]
        badSize == c.fileSize # Undefined
                     /\ (c.fileSize = 0 \/ c.fileSize > 10 * 1024 * 1024)
        badMime == c.mimeType # <<>> /\ toLowerCase(c.mimeType) \notin AllowedMimeNames
    IN HasAllowedExtension(c.uri) =>
         /\ c.ret.valid <=> ~(badSize \/ badMime)
         /\ (c.fileSize = 20 * 1024 * 1024 /\ ~badMime) =>
              c.ret.error = [kind |-> "FileTooLarge",
                             sizeMB |-> [neg |-> FALSE, whole |-> 20, frac |-> 0],
                             maxMB |-> 10]

\* the picker declares a 20 MB JPEG with an upper-case MIME type
C3_Witness ==
  /\ pc = "rejected"
  /\ validations[1].uri = U_JPG
  /\ validations[1].fileSize = 20 * 1024 * 1024
  /\ validations[1].mimeType = M_PNG_upper
  /\ validations[1].ret.error.kind = "FileTooLarge"

\* C4 (as claimed): a reference whose extension is not jpg, jpeg, png, webp
\* or gif is invalid for validateImageFile, and the pipeline stops before the
\* compressor runs or the file is read.
C4_ExtensionRejected ==
  /\ \A i \in 1..Len(validations) :
       ~HasAllowedExtension(validations[i].uri) => ~validations[i].ret.valid
  /\ (pc # "idle" /\ ~HasAllowedExtension(uri)) =>
       obs.compressCalls = 0 /\ obs.readCalls = 0

\* C5: when the compressor throws, the run goes on with the original
\* reference and no error is returned by that step; such a run never reports
\* compressed = true.  wasCompressed is true only when compression was
\* enabled and the compressor returned; with compression disabled the
\* compressor is never invoked.
C5_CompressionFallbackState ==
  /\ "compress" \in obs.failed =>
       /\ local.processedUri = uri
       /\ ~local.wasCompressed
       /\ ~result.compressed
  /\ (local.wasCompressed \/ result.compressed) =>
       /\ opts.compress
       /\ obs.compressCalls = 1
       /\ "compress" \notin obs.failed
       /\ local.processedUri = U_manipulated
  /\ (pc # "idle" /\ ~opts.compress) => obs.compressCalls = 0

C5_CompressionFallback ==
  /\ []C5_CompressionFallbackState
  /\ [][pc = "compress" => (pc' = "p30" /\ result' = result)]_vars

\* a successful upload of the original file after the compressor threw
C5_Witness ==
  /\ result.status = "success"
  /\ "compress" \in obs.failed
  /\ ~result.compressed

RejectionKinds == {"InvalidFileFormat", "InvalidMimeType", "FileEmpty", "FileTooLarge",
                   "FileIsTooLarge", "NotEnoughStorageSpace"}

\* C6: a put is only made after the pre-compression validation of the
\* reference, the validation of the encoded size and the quota check of that
\* size have all passed; createSignedUrl is only requested after an
\* acknowledged put; a validation or quota rejection comes with no store
\* call and no backoff sleep.
C6_GateBeforeTransfer ==
  /\ (pc = "put" \/ obs.putLog # <<>>) =>
       LET n == Len(validations)
       IN /\ n >= 2
          /\ validations[n - 1].uri = uri
          /\ validations[n - 1].fileSize = Undefined
          /\ validations[n - 1].ret.valid
          /\ validations[n].fileSize = local.estimatedSize
          /\ validations[n].ret.valid
          /\ lastCheck.called
          /\ lastCheck.fileSizeBytes = local.estimatedSize
          /\ lastCheck.ret.allowed
  /\ obs.urlLog # <<>> => \E i \in 1..NumPuts : PutOut(i) = "ack"
  /\ (result.status = "error" /\ result.error.kind \in RejectionKinds) =>
       obs.putLog = <<>> /\ obs.urlLog = <<>> /\ obs.sleeps = <<>>

\* a put and a reference request made after a quota check that passed with
\* the owner already at 95 MB
C6_Witness ==
  /\ obs.putLog # <<>>
  /\ obs.urlLog # <<>>
  /\ lastCheck.currentBytes = 95 * MB
  /\ lastCheck.ret.allowed

\* C7 (as claimed): a failure of the file read, of a usage-ledger query, of
\* the decode, of the put after the last attempt or of the signed-URL request
\* always ends the run with an error returned to the caller.
C7_ErrorsPropagate ==
  (obs.failed \ {"compress"}) # {} => (pc = "failed" /\ result.status = "error")

\* C8 (as claimed): the store never refuses a retry because an earlier
\* attempt of the run already wrote the object, and at most one object
\* exists for the run.
C8_RetryOverwrites ==
  ~obs.cbThrew =>
    /\ \A i \in 1..NumPuts : PutOut(i) # "duplicate"
    /\ Cardinality(objects) <= 1

\* C9 (as claimed): a progress callback that throws has no effect: its
\* exception is neither the run's error nor a failed attempt, and no put
\* follows an acknowledged put.
C9_CallbackIgnored ==
  obs.cbThrew =>
    /\ result.error # CallbackError
    /\ local.lastError # CallbackError
    /\ \A i \in 1..(NumPuts - 1) : PutOut(i) # "ack"

\* C10: createSignedUrl is requested at most once per run, only after the
\* acknowledged put and for the path of that put, and exactly once before a
\* success; when it fails the run ends with an error that is not the
\* transfer error, the acknowledged put is the last put, and the object is
\* still in the store.
C10_ReferenceIssuance ==
  /\ Len(obs.urlLog) <= 1
  /\ obs.urlLog # <<>> =>
       /\ FailuresThenAck
       /\ obs.urlLog[1] = obs.putLog[NumPuts].path
  /\ (pc \in {"p100", "return", "done"}) => Len(obs.urlLog) = 1
  /\ "url" \in obs.failed =>
       /\ pc = "failed"
       /\ result.status = "error"
       /\ result.error.kind \in {"FailedToGenerateSignedUrl", "NetworkError"}
       /\ result.error.kind # "UploadFailedAfter"
       /\ PutOut(NumPuts) = "ack"
       /\ local.storagePath \in objects

\* the reference request fails after a retried, then acknowledged put
C10_Witness ==
  /\ "url" \in obs.failed
  /\ result.error.kind = "FailedToGenerateSignedUrl"
  /\ NumPuts = 2
  /\ Len(obs.urlLog) = 1

\* C11 (as claimed): a file above the 10 MB ceiling is rejected before the
\* compressor is invoked and before the file is read: whenever the run holds
\* the original file and that file is larger than the ceiling, neither
\* compressImage nor readAsStringAsync has been called.
C11_EarlySizeRejection ==
  (local.processedUri = uri /\ local.fileBytes > 10 * 1024 * 1024) =>
    obs.compressCalls = 0 /\ obs.readCalls = 0

\* C12 (as claimed): the size given to the second validation, to the quota
\* check and returned as UploadResult.size is the number of bytes handed to
\* the store, and every file of 1 .. 10 MB passes the second validation.
C12_ActualByteCount ==
  /\ \A i \in 1..NumPuts :
       /\ obs.putLog[i].size = local.estimatedSize
       /\ obs.putLog[i].size = lastCheck.fileSizeBytes
       /\ obs.putLog[i].size = validations[Len(validations)].fileSize
  /\ result.status = "success" => result.size = local.bytesLength
  /\ (pc \notin {"idle", "rejected", "called", "sizevalidate"}
        /\ obs.readCalls = 1 /\ "read" \notin obs.failed
        /\ local.fileBytes >= 1 /\ local.fileBytes <= 10 * 1024 * 1024) =>
       validations[Len(validations)].ret.valid

\* C13 (as claimed): whatever the two ledger queries do, the usage that
\* checkStorageLimit compares against the ceilings is the sum of the owner's
\* storage_images and tools sizes at the time of the call, and is >= 0.
C13_LiveLedgerSum ==
  lastCheck.called =>
    /\ lastCheck.currentBytes = SumSeq(ledger.images) + SumSeq(ledger.tools)
    /\ lastCheck.ret.res.currentUsage = lastCheck.currentBytes
    /\ lastCheck.currentBytes >= 0

C20_DecodeFatal ==
  /\ "decode" \in obs.failed =>
       /\ pc = "failed"
       /\ result.status = "error"
       /\ result.error = [kind |-> "FailedToProcessImageData"]
       /\ result.error.kind \notin RejectionKinds \cup {"UploadFailedAfter"}
       /\ obs.putLog = <<>>
       /\ obs.urlLog = <<>>
  /\ \A i \in 1..NumPuts :
       obs.putLog[i].size = local.fileBytes /\ obs.putLog[i].size > 0

\* the decode threw after validation and the quota check had passed
C20_Witness ==
  /\ "decode" \in obs.failed
  /\ lastCheck.called /\ lastCheck.ret.allowed
  /\ result.error.kind = "FailedToProcessImageData"

\* the resize action of the compressImage call, if one was issued
ResizeIssued == Len(unitCall.manipulations) = 2
ResizeAsked == unitCall.manipulations[2].actions[1].resize

\* C17: compressImage issues a resize exactly when width > maxWidth or
\* height > maxHeight.  The resize asks for at most maxWidth x maxHeight and
\* at most the input size, and the axis with the smaller ratio max / input
\* gets exactly its maximum (one scale factor min(maxWidth / width,
\* maxHeight / height)).  Otherwise the only manipulation is the re-encode
\* as JPEG at the configured quality and the returned size is the input size.
C17_ResizeRule ==
  (unitCall.called /\ unitCall.fn = "compressImage"
     /\ unitCall.manipulations[1].out = "ok") =>
    LET w == unitCall.width
        h == unitCall.height
        maxW == unitCall.opts.maxWidth
        maxH == unitCall.opts.maxHeight
    IN /\ ResizeIssued <=> (w > maxW \/ h > maxH)
       /\ unitCall.manipulations[1] =
            [actions |-> <<>>, compress |-> unitCall.opts.quality,
             format |-> "JPEG", out |-> "ok"]
       /\ ResizeIssued =>
            /\ Len(unitCall.manipulations[2].actions) = 1
            /\ ResizeAsked.width <= maxW /\ ResizeAsked.height <= maxH
            /\ ResizeAsked.width <= w /\ ResizeAsked.height <= h
            /\ maxW * h <= maxH * w => ResizeAsked.width = maxW
            /\ maxH * w <= maxW * h => ResizeAsked.height = maxH
            /\ unitCall.ret.status = "ok" =>
                 /\ unitCall.ret.width = ResizeAsked.width
                 /\ unitCall.ret.height = ResizeAsked.height
       /\ ~ResizeIssued =>
            /\ unitCall.ret.status = "ok"
            /\ unitCall.ret.width = w /\ unitCall.ret.height = h

\* a 4032 x 1080 image: only the width is above 1920, resized to 1920 x 514
C17_Witness ==
  /\ unitCall.called /\ unitCall.fn = "compressImage"
  /\ unitCall.width = 4032 /\ unitCall.height = 1080
  /\ unitCall.opts = DEFAULT_OPTIONS
  /\ ResizeIssued
  /\ ResizeAsked = [width |-> 1920, height |-> 514]
  /\ unitCall.ret.status = "ok"

Abs(x) == IF x < 0 THEN 0 - x ELSE x

\* C18: when either dimension is above its maximum, each dimension of the
\* resize is less than one pixel away from the input dimension times
\* min(maxWidth / width, maxHeight / height).
C18_AspectRatio ==
  (unitCall.called /\ unitCall.fn = "compressImage"
     /\ (unitCall.width > unitCall.opts.maxWidth
           \/ unitCall.height > unitCall.opts.maxHeight)
     /\ unitCall.manipulations[1].out = "ok") =>
    LET w == unitCall.width
        h == unitCall.height
        maxW == unitCall.opts.maxWidth
        maxH == unitCall.opts.maxHeight
        \* the scale factor num / den
        num == IF maxW * h <= maxH * w THEN maxW ELSE maxH
        den == IF maxW * h <= maxH * w THEN w ELSE h
    IN /\ ResizeIssued
       /\ Abs(ResizeAsked.width * den - w * num) < den
       /\ Abs(ResizeAsked.height * den - h * num) < den

\* 6400 x 5 scaled by 0.3: the exact height is 1.5, the resize asks for 1 or 2
C18_Witness ==
  /\ unitCall.called /\ unitCall.fn = "compressImage"
  /\ unitCall.width = 6400 /\ unitCall.height = 5
  /\ unitCall.opts = DEFAULT_OPTIONS
  /\ ResizeIssued
  /\ ResizeAsked.width = 1920
  /\ ResizeAsked.height = 1

\* C19: for every byte sequence, the base64 text that the read returns,
\* decoded and copied character by character as in the pipeline, gives a
\* buffer of the same length with the same byte at every index; the text has
\* the length the pipeline's size estimate assumes.
C19_RoundTrip ==
  (unitCall.called /\ unitCall.fn = "encodeDecode") =>
    /\ unitCall.ret.status = "ok"
    /\ Len(unitCall.ret.bytes) = Len(unitCall.bytes)
    /\ \A i \in 1..Len(unitCall.bytes) : unitCall.ret.bytes[i] = unitCall.bytes[i]
    /\ Len(unitCall.base64) = Base64Length(Len(unitCall.bytes))

\* two bytes, one padding character
C19_Witness ==
  /\ unitCall.called /\ unitCall.fn = "encodeDecode"
  /\ unitCall.bytes = <<165, 255>>
  /\ unitCall.base64 = <<"p", "f", "8", "=">>
  /\ unitCall.ret = [status |-> "ok", bytes |-> <<165, 255>>]

\* bytes the ledger attributes to the owner
RecordedUsage == SumSeq(ledger.images) + SumSeq(ledger.tools)
\* bytes of the rows the runs have inserted
InsertedByRuns ==
  SumSeq([r \in RunIds |-> IF runs[r].pc = "recorded" THEN runs[r].size ELSE 0])

\* C15: with both ledger queries of every check answered, each check that
\* lets a run through saw usage + size within 100 MB; yet recorded usage can
\* end above 100 MB, and it does so only when every run is recorded and each
\* run's check saw the usage from before either insert (both checks passed
\* before either upload was recorded); the excess is at most one file.
C15_QuotaRace ==
  (\A r \in RunIds : runs[r].queriesOk) =>
    /\ \A r \in RunIds :
         runs[r].pc \in {"path", "put", "sign", "insert", "recorded", "unrecorded"} =>
           runs[r].seen + runs[r].size <= 100 * 1024 * 1024
    /\ RecordedUsage > 100 * 1024 * 1024 =>
         /\ \A r \in RunIds :
              /\ runs[r].pc = "recorded"
              /\ runs[r].seen = RecordedUsage - InsertedByRuns
         /\ RecordedUsage - InsertedByRuns <= 100 * 1024 * 1024
         /\ RecordedUsage <= 100 * 1024 * 1024 + 10 * 1024 * 1024

\* 95 MB recorded, two 3 MB uploads both checked against 95 MB: 101 MB
C15_Witness ==
  /\ \A r \in RunIds :
       /\ runs[r].queriesOk
       /\ runs[r].pc = "recorded"
       /\ runs[r].seen = 95 * MB
       /\ runs[r].size = 3 * MB
  /\ RecordedUsage = 101 * MB

\* C16 (as claimed): two runs in flight together have distinct destination
\* paths, and no put of a run is refused because of the other run's object.
C16_IndependentRuns ==
  \A r1 \in RunIds, r2 \in RunIds :
    r1 # r2 =>
      /\ (runs[r1].path # <<>> /\ runs[r2].path # <<>>) =>
           runs[r1].path # runs[r2].path
      /\ ~runs[r1].collided

\* characters a base name keeps
NameChars ==
  {Upper[i] : i \in 1..26} \cup {Lower[i] : i \in 1..26}
    \cup {DigitChars[i] : i \in 1..10} \cup {"-", "_"}
\* the base name with every other character removed / replaced by '-'
Stripped(name) == SelectSeq(name, LAMBDA c : c \in NameChars)
Hyphenated(name) == [i \in 1..Len(name) |-> IF name[i] \in NameChars THEN name[i] ELSE "-"]
\* the content type of an extension
ContentTypeOf(ext) ==
  CASE ext \in {S_jpg, S_jpeg} -> M_jpeg
    [] ext = S_png -> M_png
    [] ext = S_webp -> M_webp
    [] ext = S_gif -> M_gif
    [] OTHER -> M_jpeg
\* owner / base - timestamp . extension
PathOf(owner, base, t, ext) ==
  owner \o <<"/">> \o base \o <<"-">> \o NumberToString(t) \o <<".">> \o ext

\* C21 (as claimed): the destination path is owner / base - timestamp .
\* extension with the base name stripped of every character other than
\* alphanumerics, hyphen and underscore.
C21_PathStripped ==
  (pc = "decode" /\ opts.fileName # <<>>) =>
    local.storagePath =
      PathOf(opts.userId, Stripped(opts.fileName), now, local.fileExtension)

\* C21 (amended): the destination path is owner / base - timestamp .
\* extension, where base is the caller's name with every character other
\* than alphanumerics, hyphen and underscore replaced by a hyphen, or
\* 'image-' and a timestamp when no name is given; every put carries the
\* content type of the extension.
C21_PathFormat ==
  /\ pc = "decode" =>
       \/ /\ opts.fileName # <<>>
          /\ local.storagePath =
               PathOf(opts.userId, Hyphenated(opts.fileName), now, local.fileExtension)
       \/ /\ opts.fileName = <<>>
          /\ \E t1 \in {now - 1, now} :
               /\ t1 >= 0
               /\ local.storagePath =
                    PathOf(opts.userId, S_imageDash \o NumberToString(t1), now,
                           local.fileExtension)
  /\ \A i \in 1..NumPuts :
       obs.putLog[i].contentType = ContentTypeOf(local.fileExtension)

\* the name 'a/b.c' for a .png reference, uploaded uncompressed
C21_Witness ==
  /\ pc = "decode"
  /\ opts.fileName = N_odd
  /\ local.storagePath =
       <<"u","1","/","a","-","b","-","c","-","0",".","p","n","g">>

\* C22: uploadWithRetry makes at most maxRetries put calls; the caller gets
\* one result or one error, which never changes afterwards; and when every
\* pending step returns, a run that has started ends, done with a result or
\* failed with an error.
C22_Terminates ==
  /\ [](NumPuts <= opts.maxRetries)
  /\ [](/\ pc = "done" => result.status = "success"
        /\ pc = "failed" => result.status = "error"
        /\ result.status # "none" => pc \in {"done", "failed"})
  /\ [][result.status # "none" => result' = result]_vars
  /\ (pc \notin {"idle", "called", "rejected"}) ~> (pc \in {"done", "failed"})

\* five failed puts with maxRetries = 5 end the run with the transfer error
C22_Witness ==
  /\ pc = "failed"
  /\ uri = U_png
  /\ opts.maxRetries = 5
  /\ NumPuts = 5
  /\ AllPutsFailed
  /\ result.error.kind = "UploadFailedAfter"

\* C23: the i-th backoff sleep of a run lasts 1000, 2000, 4000 and then
\* 5000 ms; there are at most maxRetries - 1 sleeps, exactly that many when
\* all attempts have failed (none after the last failure); an attempt with
\* index a starts after a sleeps, and the clock has advanced by all of them.
C23_BackoffSchedule ==
  /\ \A i \in 1..Len(obs.sleeps) :
       obs.sleeps[i] = CASE i = 1 -> 1000 [] i = 2 -> 2000 [] i = 3 -> 4000
                         [] OTHER -> 5000
  /\ opts.maxRetries >= 1 => Len(obs.sleeps) <= opts.maxRetries - 1
  /\ opts.maxRetries = 0 => obs.sleeps = <<>>
  /\ pc \in {"attempt", "put", "uploaded"} => Len(obs.sleeps) = local.attempt
  /\ (result.status = "error" /\ result.error.kind = "UploadFailedAfter"
        /\ opts.maxRetries >= 1) =>
       Len(obs.sleeps) = opts.maxRetries - 1
  /\ now >= SumSeq(obs.sleeps)

\* four sleeps before the fifth attempt, the last one capped
C23_Witness ==
  /\ opts.maxRetries = 5
  /\ obs.sleeps = <<1000, 2000, 4000, 5000>>
  /\ pc = "put"
  /\ NumPuts = 4

\* C24: every put of a run carries the run's one destination path, the whole
\* decoded buffer and the content type of the extension; the same path goes
\* to createSignedUrl; path, buffer and content type do not change once the
\* upload loop has been entered.
C24_RequestUnchangedState ==
  /\ \A i \in 1..NumPuts :
       /\ obs.putLog[i].path = local.storagePath
       /\ obs.putLog[i].size = local.bytesLength
       /\ obs.putLog[i].contentType = local.mimeType
  /\ \A i \in 1..Len(obs.urlLog) : obs.urlLog[i] = local.storagePath
  /\ pc \in {"loop", "attempt", "put", "uploaded", "sleep"} => local.storagePath # <<>>

C24_RequestUnchanged ==
  /\ []C24_RequestUnchangedState
  /\ [][(pc \in {"decode", "p60", "loop", "attempt", "put", "uploaded", "sleep",
                  "p90", "signurl", "p100", "return"}) =>
          (/\ local'.storagePath = local.storagePath
           /\ local'.mimeType = local.mimeType
           /\ pc # "decode" => local'.bytesLength = local.bytesLength)]_vars

\* a lost put, a sleep, an acknowledged put, then the reference request
C24_Witness ==
  /\ NumPuts = 2
  /\ PutOut(1) = "transient" /\ PutOut(2) = "ack"
  /\ obs.sleeps = <<1000>>
  /\ obs.urlLog = <<obs.putLog[1].path>>
  /\ opts.fileName = N_odd

\* C25 (as claimed): the compressor runs after the validator, the read after
\* the compressor, and the byte buffer is complete before the size is
\* re-validated and before the quota check; puts come after the quota check
\* and the reference request after an acknowledged put.
C25_StageOrder ==
  /\ obs.compressCalls > 0 => Len(validations) >= 1
  /\ (obs.readCalls > 0 /\ opts.compress) => obs.compressCalls = 1
  /\ (pc \in {"quota", "p50", "path"} /\ local.fileBytes > 0) =>
       local.bytesLength = local.fileBytes
  /\ obs.putLog # <<>> => lastCheck.called
  /\ obs.urlLog # <<>> => obs.putLog # <<>>

\* a <= b for progress values <<numerator, denominator>>
FractionLeq(a, b) == a[1] * b[2] <= b[1] * a[2]

\* C26 (as claimed): the delivered progress values never decrease and lie in
\* 0..100; the values of the upload stage (between the 60 and the 90 of the
\* pipeline) lie in 60..90; 100 is the last value delivered and is delivered
\* only to a run that succeeds.
C26_ProgressSequence ==
  LET p == obs.progress
  IN /\ \A i \in 1..Len(p) : FractionLeq(<<0, 1>>, p[i]) /\ FractionLeq(p[i], <<100, 1>>)
     /\ \A i \in 1..(Len(p) - 1) : FractionLeq(p[i], p[i + 1])
     /\ \A i \in 1..Len(p) :
          p[i][2] # 1 => FractionLeq(<<60, 1>>, p[i]) /\ FractionLeq(p[i], <<90, 1>>)
     /\ \A i \in 1..Len(p) :
          p[i] = <<100, 1>> => (i = Len(p) /\ pc \in {"return", "done"})

\* C27: when both ledger queries of every check are answered, no run checks
\* the quota while another run has passed its check and is not yet recorded,
\* and every run that succeeded is recorded, the recorded usage stays within
\* 100 MB; each recorded run saw exactly the usage recorded before its row.
C27_SequentialQuota ==
  (\A r \in RunIds : /\ runs[r].queriesOk
                     /\ ~runs[r].overlapped
                     /\ runs[r].pc # "unrecorded") =>
    /\ RecordedUsage <= 100 * 1024 * 1024
    /\ \A r \in RunIds :
         runs[r].pc = "recorded" =>
           /\ runs[r].seen + runs[r].size <= RecordedUsage
           /\ runs[r].seen >= RecordedUsage - InsertedByRuns

\* 95 MB recorded, one 3 MB upload recorded, then the next run's check sees
\* 98 MB and refuses
C27_Witness ==
  /\ \A r \in RunIds : runs[r].queriesOk /\ ~runs[r].overlapped
  /\ \E r \in RunIds, q \in RunIds :
       /\ runs[r].pc = "recorded" /\ runs[r].seen = 95 * MB
       /\ runs[q].pc = "failed" /\ runs[q].seen = 98 * MB
  /\ RecordedUsage = 98 * MB

\* C28 (as claimed): a run that ends in an error leaves no object in the
\* store, and deleteStorageImage returns success only when the object was
\* removed from the store.
C28_LedgerCoversStore ==
  /\ pc = "failed" => objects = {}
  /\ (unitCall.called /\ unitCall.fn = "deleteStorageImage") =>
       (unitCall.ret.success => unitCall.objectRemoved)

\* C29 (as claimed): the resize that compressImage asks for has a width and
\* a height of at least 1.
C29_ValidResizeTarget ==
  (unitCall.called /\ unitCall.fn = "compressImage" /\ ResizeIssued) =>
    ResizeAsked.width >= 1 /\ ResizeAsked.height >= 1

\* C30: the destination path is the owner id, one '/', and a last segment
\* without '/' that ends in '.' and one of jpg, jpeg, png, webp, gif,
\* whatever the file name ('a/b.c', '../x', none) and the reference.
C30_OwnerPrefix ==
  local.storagePath # <<>> =>
    LET p == local.storagePath
        n == Len(opts.userId)
    IN /\ Len(p) > n + 1
       /\ SubSeq(p, 1, n) = opts.userId
       /\ p[n + 1] = "/"
       /\ \A i \in (n + 2)..Len(p) : p[i] # "/"
       /\ \E ext \in AllowedExtensionNames :
            /\ Len(p) > n + 2 + Len(ext)
            /\ SubSeq(p, Len(p) - Len(ext) + 1, Len(p)) = ext
            /\ p[Len(p) - Len(ext)] = "."

\* the name '../x' for the reference 'a.b/p.png'
C30_Witness ==
  /\ opts.fileName = N_dotdot
  /\ uri = U_png
  /\ local.storagePath = <<"u","1","/","-","-","-","x","-","0",".","p","n","g">>
  /\ obs.putLog # <<>>

====
